---------------------------- MODULE Spec2Model ----------------------------
(***************************************************************************)
(* A model of package uvgo (src/uv.go): a Runner built by New from         *)
(* functional options, and the four entry points Run, RunFromString,       *)
(* StructuredOutput and StructuredOutputFromString, which all end in       *)
(* Runner.execute.                                                         *)
(*                                                                         *)
(* Go values are represented as follows.                                   *)
(*   - a Go string that the code only compares, tests for emptiness or     *)
(*     formats into a message (paths, flags, stdout, stderr, messages) is  *)
(*     a TLA+ string; fmt.Errorf is string concatenation.                  *)
(*   - a script text, which the code scans, is a sequence of chunks of     *)
(*     bytes (Marker, Long, "x", " ", "\n"), each with its width in bytes. *)
(*   - a slice is a sequence; a nil slice is <<>>.                         *)
(*   - a pointer or an error is None (nil) or Some(v).                     *)
(*   - a time.Duration is a whole number of seconds.                       *)
(* The subprocess, the file system and the contexts are the environment:   *)
(* every call draws what they do (a Scenario, a Stat outcome, a file's     *)
(* content) from bounded sets.                                             *)
(***************************************************************************)
EXTENDS Integers, Sequences, FiniteSets, TLC

VARIABLES
    runner,   \* None, or Some(the Runner New returned)
    opts,     \* the options New was given when it built runner
    ret,      \* the last call: its operation, inputs, scenario and outcome
    ncalls    \* how many calls were made on runner

vars == <<runner, opts, ret, ncalls>>

---------------------------------------------------------------------------
(* Bounds of the model.                                                    *)

MaxOpts == 2

MaxCalls == 2

MaxScriptLen == 3

---------------------------------------------------------------------------
(* Values.                                                                 *)

None == <<>>

Some(v) == <<v>>

\* time.Duration(30 * time.Second), in seconds: the timeout New starts from.
DefaultTimeout == 30

\* bufio.MaxScanTokenSize: the longest line, in bytes, that the
\* bufio.Scanner of validateJSONPrint can hold.
MaxScanTokenSize == 65536

\* The substring validateJSONPrint looks for.
Marker == "print(json.dumps"

\* A run of MaxScanTokenSize bytes that are neither white space nor a newline.
Long == "aaaa...a"

\* The bytes of script chunk c.
Width(c) ==
    CASE c = Marker -> 16
      [] c = Long -> MaxScanTokenSize
      [] OTHER -> 1

\* unicode.IsSpace, on the chunks of a script.
IsSpace(c) == c \in {" ", "\n", "\t", "\r"}

\* strconv.Itoa on a digit.
Digit(d) ==
    CASE d = 0 -> "0" [] d = 1 -> "1" [] d = 2 -> "2" [] d = 3 -> "3"
      [] d = 4 -> "4" [] d = 5 -> "5" [] d = 6 -> "6" [] d = 7 -> "7"
      [] d = 8 -> "8" [] d = 9 -> "9"

RECURSIVE Digits(_)
Digits(n) == IF n < 10 THEN Digit(n) ELSE Digits(n \div 10) \o Digit(n % 10)

\* The %d verb of fmt.
Itoa(n) == IF n < 0 THEN "-" \o Digits(-n) ELSE Digits(n)

\* The %v verb of fmt on a time.Duration of whole seconds below a minute.
DurationString(t) == Itoa(t) \o "s"

---------------------------------------------------------------------------
(* Runner and its options.                                                 *)

\* &Runner{timeout: 30 * time.Second}: every other field is its zero value.
NewRunner ==
    [pythonVersion |-> "",
     extraFlags    |-> <<>>,
     timeout       |-> DefaultTimeout,
     env           |-> <<>>,
     workDir       |-> "",
     dependencies  |-> <<>>,
     scriptArgs    |-> <<>>]

WithPython(version) == [kind |-> "WithPython", version |-> version]

WithExtraFlags(flags) == [kind |-> "WithExtraFlags", flags |-> flags]

WithTimeout(timeout) == [kind |-> "WithTimeout", timeout |-> timeout]

WithEnv(env) == [kind |-> "WithEnv", env |-> env]

WithWorkDir(workDir) == [kind |-> "WithWorkDir", workDir |-> workDir]

WithDependencies(deps) == [kind |-> "WithDependencies", deps |-> deps]

WithScriptArgs(args) == [kind |-> "WithScriptArgs", args |-> args]

\* WithDependencies as a bug would have it: the dependencies accumulate.
ApplyAccumulating(opt, r) ==
    CASE opt.kind = "WithPython"       -> [r EXCEPT !.pythonVersion = opt.version]
      [] opt.kind = "WithExtraFlags"   -> [r EXCEPT !.extraFlags = opt.flags]
      [] opt.kind = "WithTimeout"      -> [r EXCEPT !.timeout = opt.timeout]
      [] opt.kind = "WithEnv"          -> [r EXCEPT !.env = opt.env]
      [] opt.kind = "WithWorkDir"      -> [r EXCEPT !.workDir = opt.workDir]
      [] opt.kind = "WithDependencies" -> [r EXCEPT !.dependencies = @ \o opt.deps]
      [] opt.kind = "WithScriptArgs"   -> [r EXCEPT !.scriptArgs = opt.args]

\* opt(r): the closure each With* returns assigns one field of r.
Apply(opt, r) ==
    CASE opt.kind = "WithPython"       -> [r EXCEPT !.pythonVersion = opt.version]
      [] opt.kind = "WithExtraFlags"   -> [r EXCEPT !.extraFlags = opt.flags]
      [] opt.kind = "WithTimeout"      -> [r EXCEPT !.timeout = opt.timeout]
      [] opt.kind = "WithEnv"          -> [r EXCEPT !.env = opt.env]
      [] opt.kind = "WithWorkDir"      -> [r EXCEPT !.workDir = opt.workDir]
      [] opt.kind = "WithDependencies" -> [r EXCEPT !.dependencies = opt.deps]
      [] opt.kind = "WithScriptArgs"   -> [r EXCEPT !.scriptArgs = opt.args]

\* for _, opt := range options { opt(r) }
RECURSIVE ApplyOptions(_, _)
ApplyOptions(r, options) ==
    IF options = <<>> THEN r
    ELSE ApplyOptions(Apply(Head(options), r), Tail(options))

\* An error value: the place that made it (kind) and its message.
Error(kind, msg) == Some([kind |-> kind, msg |-> msg])

\* New(options...): what it returns, given whether exec.LookPath finds uv.
New(options, uvFound) ==
    IF ~uvFound
    THEN [runner |-> None,
          err |-> Error("ToolNotFound",
                        "uv not found in PATH: "
                            \o "exec: \"uv\": executable file not found in $PATH")]
    ELSE [runner |-> Some(ApplyOptions(NewRunner, options)), err |-> None]

---------------------------------------------------------------------------
(* The environment of one execution.                                       *)

\* What the context derived in execute reports from ctx.Err(), given what
\* ended it first: nothing yet, the timer of context.WithTimeout, the
\* caller's cancel, or the caller's own deadline.
CtxErr(doneBy) ==
    CASE doneBy = "none"          -> "nil"
      [] doneBy = "timeout"       -> "DeadlineExceeded"
      [] doneBy = "outerDeadline" -> "DeadlineExceeded"
      [] doneBy = "outerCancel"   -> "Canceled"

\* context's Error() strings.
CtxErrString(doneBy) ==
    IF CtxErr(doneBy) = "DeadlineExceeded" THEN "context deadline exceeded"
    ELSE "context canceled"

\* A scenario is what the environment does during one execute:
\*   fate     "startFailsCtx"   the context is done when cmd.Start looks at it
\*            "startFailsOther" cmd.Start fails (working directory, uv gone)
\*            "exits"           the subprocess exits by itself with code
\*            "killed"          the context ends while the subprocess runs,
\*                              and exec kills it
\*            "copyFails"       the subprocess exits 0, copying its output fails
\*   doneBy   what ended the context first, as of the ctx.Err() at line 158
\*   out, errText  what the subprocess wrote to stdout and stderr
Scenario(fate, doneBy, code, out, errText) ==
    [fate |-> fate, doneBy |-> doneBy, code |-> code, out |-> out, errText |-> errText]

NoScenario == Scenario("none", "none", 0, "", "")

\* context.WithTimeout with a timeout that is not positive returns a context
\* that is already done, and cmd.Start then starts nothing; the timer of a
\* positive timeout (whole seconds) does not fire before cmd.Start.
ValidScenario(r, scn) ==
    /\ r.timeout <= 0 => scn.fate = "startFailsCtx"
    /\ (scn.fate = "startFailsCtx" /\ scn.doneBy = "timeout") => r.timeout <= 0
    /\ scn.fate = "startFailsCtx" =>
           scn.doneBy # "none" /\ scn.code = 0 /\ scn.out = "" /\ scn.errText = ""
    /\ scn.fate = "startFailsOther" =>
           scn.doneBy = "none" /\ scn.code = 0 /\ scn.out = "" /\ scn.errText = ""
    /\ scn.fate = "exits" => scn.code >= 0
    /\ scn.fate = "killed" => scn.doneBy # "none" /\ scn.code = -1
    /\ scn.fate = "copyFails" => scn.doneBy = "none" /\ scn.code = 0

\* os.Environ(): the environment the calling process passes on.
OsEnviron == <<"PATH=/bin", "A=0">>


---------------------------------------------------------------------------
(* Runner.execute.                                                         *)

\* for _, dep := range r.dependencies { uvArgs = append(uvArgs, "--with", dep) }
RECURSIVE AppendDeps(_, _)
AppendDeps(uvArgs, deps) ==
    IF deps = <<>> THEN uvArgs
    ELSE AppendDeps(uvArgs \o <<"--with", Head(deps)>>, Tail(deps))

\* The script arguments as a bug would have them: the defaults follow the
\* call-site arguments.
ScriptArgsMerged(r, args) == args \o r.scriptArgs

\* var scriptArgs: the call-site arguments if there are any, else the
\* Runner's default arguments.
ScriptArgsFor(r, args) ==
    IF Len(args) > 0 THEN args
    ELSE IF Len(r.scriptArgs) > 0 THEN r.scriptArgs
    ELSE <<>>

\* uvArgs, as execute builds it.
BuildArgs(r, scriptPath, args) ==
    LET uvArgs0 == <<"run">>
        uvArgs1 == IF r.pythonVersion # ""
                   THEN uvArgs0 \o <<"--python", r.pythonVersion>>
                   ELSE uvArgs0
        uvArgs2 == AppendDeps(uvArgs1, r.dependencies)
        uvArgs3 == uvArgs2 \o r.extraFlags
        uvArgs4 == Append(uvArgs3, scriptPath)
        scriptArgs == ScriptArgsFor(r, args)
    IN  IF Len(scriptArgs) > 0 THEN uvArgs4 \o scriptArgs ELSE uvArgs4

\* The exec.Cmd that execute sets up: Dir, Env and Stdin stay at their zero
\* value (here "" and None) unless execute assigns them.
Command(r, scriptPath, scriptContent, args) ==
    [name  |-> "uv",
     args  |-> BuildArgs(r, scriptPath, args),
     dir   |-> IF r.workDir # "" THEN r.workDir ELSE "",
     env   |-> IF Len(r.env) > 0 THEN Some(OsEnviron \o r.env) ELSE None,
     stdin |-> IF scriptPath = "-" THEN Some(scriptContent) ELSE None]

\* The environment the subprocess gets: os/exec passes the current
\* process's environment when cmd.Env is nil.
EffectiveEnv(cmd) == IF cmd.env = None THEN OsEnviron ELSE cmd.env[1]

\* (*os.ProcessState).String() of a subprocess that ended with code, which
\* is what (*exec.ExitError).Error() returns; code -1 is a signal's.
ExitErrorString(code) ==
    IF code = -1 THEN "signal: killed" ELSE "exit status " \o Itoa(code)

\* cmd.Run() under scenario scn: whether a subprocess was started (and so
\* cmd.ProcessState set), and the error returned.
cmdRun(scn) ==
    CASE scn.fate = "startFailsCtx" ->
            [started |-> FALSE,
             err |-> Some([class |-> "ctx", text |-> CtxErrString(scn.doneBy)])]
      [] scn.fate = "startFailsOther" ->
            [started |-> FALSE,
             err |-> Some([class |-> "start",
                           text |-> "chdir: no such file or directory"])]
      [] scn.fate = "exits" ->
            [started |-> TRUE,
             err |-> IF scn.code = 0 THEN None
                     ELSE Some([class |-> "exit", text |-> ExitErrorString(scn.code)])]
      [] scn.fate = "killed" ->
            [started |-> TRUE,
             err |-> Some([class |-> "exit", text |-> ExitErrorString(scn.code)])]
      [] scn.fate = "copyFails" ->
            [started |-> TRUE,
             err |-> Some([class |-> "copy", text |-> "write: file already closed"])]

\* Result{Stdout, Stderr, ...}: SystemTime and UserTime are read from
\* cmd.ProcessState and are left out; reading them is what Classify models.
Result(stdout, stderr) == [Stdout |-> stdout, Stderr |-> stderr]

\* The classification as a bug would have it: the captured standard error
\* is the whole message.
ExitFailureBare(r, result, code, errText) ==
    IF result.Stderr # ""
    THEN Error("ExecutionFailed", result.Stderr)
    ELSE Error("ExecutionFailed",
               "script execution failed with exit code " \o Itoa(code)
                   \o ": " \o errText)

\* if exitError, ok := err.(*exec.ExitError); ok { ... }
ExitFailure(r, result, code, errText) ==
    IF result.Stderr # ""
    THEN Error("ExecutionFailed", "script execution failed: " \o result.Stderr)
    ELSE Error("ExecutionFailed",
               "script execution failed with exit code " \o Itoa(code)
                   \o ": " \o errText)

\* What execute returns once cmd.Run has returned run under scenario scn.
\* cmd.ProcessState is nil when no subprocess was started, and
\* cmd.ProcessState.SystemTime() then dereferences nil: the call panics.
Classify(r, run, scn) ==
    LET result == Result(scn.out, scn.errText)
    IN  IF ~run.started
        THEN [panicked |-> TRUE, result |-> None, err |-> None]
        ELSE IF run.err # None
        THEN IF CtxErr(scn.doneBy) = "DeadlineExceeded"
             THEN [panicked |-> FALSE, result |-> Some(result),
                   err |-> Error("Timeout",
                                 "script execution timed out after "
                                     \o DurationString(r.timeout) \o ": "
                                     \o run.err[1].text)]
             ELSE IF run.err[1].class = "exit"
             THEN [panicked |-> FALSE, result |-> Some(result),
                   err |-> ExitFailure(r, result, scn.code, run.err[1].text)]
             ELSE [panicked |-> FALSE, result |-> Some(result),
                   err |-> Error("ExecutionFailed",
                                 "script execution failed: " \o run.err[1].text)]
        ELSE [panicked |-> FALSE, result |-> Some(result), err |-> None]

\* What a call hands back: the exec.Cmd it set up (None if it never got
\* there), how often it called cmd.Run, how many subprocesses that started,
\* and what it returned, or that it panicked.
Outcome(cmd, runs, procs, panicked, result, err) ==
    [cmd |-> cmd, runs |-> runs, procs |-> procs,
     panicked |-> panicked, result |-> result, err |-> err]

\* A return before execute is reached.
EarlyReturn(err) == Outcome(None, 0, 0, FALSE, None, err)

\* r.execute(ctx, scriptPath, scriptContent, args)
execute(r, scriptPath, scriptContent, args, scn) ==
    LET cmd == Command(r, scriptPath, scriptContent, args)
        run == cmdRun(scn)
        c   == Classify(r, run, scn)
    IN  Outcome(Some(cmd), 1, IF run.started THEN 1 ELSE 0,
                c.panicked, c.result, c.err)

\* Run as a bug would have it: no check that the file exists.
RunUnchecked(r, scriptPath, stat, args, scn) ==
    execute(r, scriptPath, <<>>, args, scn)

\* r.Run(ctx, scriptPath, args...), given what os.Stat(scriptPath) reports:
\* "ok", "notExist" (an error os.IsNotExist accepts) or "otherErr".
Run(r, scriptPath, stat, args, scn) ==
    IF stat = "notExist"
    THEN EarlyReturn(Error("ScriptNotFound",
                           "script file does not exist: stat " \o scriptPath
                               \o ": no such file or directory"))
    ELSE execute(r, scriptPath, <<>>, args, scn)

\* r.RunFromString(ctx, script, args...)
RunFromString(r, script, args, scn) ==
    IF script = <<>>
    THEN EarlyReturn(Error("EmptyScript", "empty script provided"))
    ELSE execute(r, "-", script, args, scn)

---------------------------------------------------------------------------
(* validateJSONPrint.                                                      *)

\* strings.TrimSpace
RECURSIVE TrimSpace(_)
TrimSpace(s) ==
    IF s = <<>> THEN s
    ELSE IF IsSpace(Head(s)) THEN TrimSpace(Tail(s))
    ELSE IF IsSpace(s[Len(s)]) THEN TrimSpace(SubSeq(s, 1, Len(s) - 1))
    ELSE s

\* The bytes of a text.
RECURSIVE ByteLen(_)
ByteLen(s) == IF s = <<>> THEN 0 ELSE Width(Head(s)) + ByteLen(Tail(s))

\* bytes.IndexByte(data, '\n'), from 1; 0 when there is none.
IndexNewline(data) ==
    IF \E i \in 1..Len(data) : data[i] = "\n"
    THEN CHOOSE i \in 1..Len(data) :
             data[i] = "\n" /\ \A j \in 1..(i - 1) : data[j] # "\n"
    ELSE 0

\* dropCR of bufio.ScanLines
DropCR(tok) ==
    IF Len(tok) > 0 /\ tok[Len(tok)] = "\r" THEN SubSeq(tok, 1, Len(tok) - 1)
    ELSE tok

\* for scanner.Scan() { lines = append(lines, scanner.Text()) }
\* bufio.Scanner with bufio.ScanLines yields the text up to each newline,
\* and a last line without one; a line of MaxScanTokenSize bytes or more
\* does not fit its buffer: Scan returns false there (ErrTooLong, which the
\* loop does not look at) and the lines before it are all there is.
RECURSIVE ScanLines(_, _)
ScanLines(data, lines) ==
    IF data = <<>> THEN lines
    ELSE LET i == IndexNewline(data)
             tok == IF i = 0 THEN data ELSE SubSeq(data, 1, i - 1)
             rest == IF i = 0 THEN <<>> ELSE SubSeq(data, i + 1, Len(data))
         IN  IF ByteLen(tok) >= MaxScanTokenSize THEN lines
             ELSE ScanLines(rest, Append(lines, DropCR(tok)))

\* for i := len(lines) - 1; i >= 0; i-- { ... }: the last line that
\* TrimSpace does not empty, trimmed; "" when there is none.
RECURSIVE LastNonEmptyLine(_)
LastNonEmptyLine(lines) ==
    IF lines = <<>> THEN <<>>
    ELSE LET line == TrimSpace(lines[Len(lines)])
         IN  IF line # <<>> THEN line
             ELSE LastNonEmptyLine(SubSeq(lines, 1, Len(lines) - 1))

\* strings.Contains(line, "print(json.dumps"), the marker being one chunk.
ContainsMarker(line) == \E i \in 1..Len(line) : line[i] = Marker

\* validateJSONPrint(script): None, or the error.
validateJSONPrint(script) ==
    IF TrimSpace(script) = <<>>
    THEN Error("EmptyScript", "empty script provided")
    ELSE IF ~ContainsMarker(LastNonEmptyLine(ScanLines(script, <<>>)))
    THEN Error("MissingMarker",
               "script must end with print(json.dumps(...)) for structured output")
    ELSE None

---------------------------------------------------------------------------
(* StructuredOutput and StructuredOutputFromString, with T a struct of one *)
(* field, a int.                                                           *)

\* The JSON document the scripts of the model print.
JsonDoc == "{\"a\":1}"

\* The zero value of T.
ZeroData == [a |-> 0]

\* json.Unmarshal([]byte(stdout), &output): white space around the
\* document is skipped; anything else than the document is an error.
Unmarshal(stdout) ==
    IF stdout \in {JsonDoc, JsonDoc \o "\n"}
    THEN [ok |-> TRUE, data |-> [a |-> 1]]
    ELSE [ok |-> FALSE, data |-> ZeroData]

\* What a structured call hands back on top of the execution's outcome:
\* the *StructuredResult (None when nil), the error, and how often
\* json.Unmarshal was called.
Structured(sres, err, decodes) == [sres |-> sres, err |-> err, decodes |-> decodes]

\* &StructuredResult[T]{Result: result, Data: data}
StructuredResult(result, data) == Some([Result |-> result, Data |-> data])

\* The calls that are not structured ones.
NoStructured == Structured(None, None, 0)

\* The execution a structured call did not get to.
NotCalled == Outcome(None, 0, 0, FALSE, None, None)

\* A wrapped error: fmt.Errorf("invalid script format: %w", err)
InvalidScriptFormat(err) ==
    Error("InvalidScriptFormat", "invalid script format: " \o err[1].msg)

\* The tail of both structured calls as a bug would have it: a decode
\* failure returns no result.
DecodeDropping(out) ==
    IF out.panicked THEN Structured(None, None, 0)
    ELSE IF out.err # None THEN Structured(StructuredResult(out.result, ZeroData), out.err, 0)
    ELSE LET u == Unmarshal(out.result[1].Stdout)
         IN  IF ~u.ok
             THEN Structured(None,
                             Error("UnmarshalFailed",
                                   "failed to unmarshal script output: invalid JSON"),
                             1)
             ELSE Structured(StructuredResult(out.result, u.data), None, 1)

\* The tail of both structured calls, from the execution's outcome out:
\* the error of the execution with its result, or the decoded output.
Decode(out) ==
    IF out.panicked THEN Structured(None, None, 0)
    ELSE IF out.err # None THEN Structured(StructuredResult(out.result, ZeroData), out.err, 0)
    ELSE LET u == Unmarshal(out.result[1].Stdout)
         IN  IF ~u.ok
             THEN Structured(StructuredResult(out.result, ZeroData),
                             Error("UnmarshalFailed",
                                   "failed to unmarshal script output: invalid JSON"),
                             1)
             ELSE Structured(StructuredResult(out.result, u.data), None, 1)

\* StructuredOutput[T](ctx, r, scriptPath, args...), given what
\* os.ReadFile(scriptPath) reports: None (an error) or Some(content).
StructuredOutput(r, scriptPath, read, stat, args, scn) ==
    IF read = None
    THEN [out |-> NotCalled,
          st  |-> Structured(None,
                             Error("ReadFailed",
                                   "failed to read script file: open " \o scriptPath
                                       \o ": no such file or directory"),
                             0)]
    ELSE LET v == validateJSONPrint(read[1])
         IN  IF v # None
             THEN [out |-> NotCalled, st |-> Structured(None, InvalidScriptFormat(v), 0)]
             ELSE LET out == Run(r, scriptPath, stat, args, scn)
                  IN  [out |-> out, st |-> Decode(out)]

\* StructuredOutputFromString[T](ctx, r, script, args...)
StructuredOutputFromString(r, script, args, scn) ==
    LET v == validateJSONPrint(script)
    IN  IF v # None
        THEN [out |-> NotCalled, st |-> Structured(None, InvalidScriptFormat(v), 0)]
        ELSE LET out == RunFromString(r, script, args, scn)
             IN  [out |-> out, st |-> Decode(out)]

---------------------------------------------------------------------------
(* The state machine: New once, then calls on the Runner it returned.      *)

\* The record of a call.
Call(op, path, script, args, stat, read, scn, out, st) ==
    [op |-> op, path |-> path, script |-> script, args |-> args, stat |-> stat,
     read |-> read, scn |-> scn, out |-> out, st |-> st]

NoCall == Call("none", "", <<>>, <<>>, "", None, NoScenario, NotCalled, NoStructured)

\* The scenario a call met: none when it returned before execute.
Met(out, scn) == IF out.runs > 0 THEN scn ELSE NoScenario

Init ==
    /\ runner = None
    /\ opts = <<>>
    /\ ret = NoCall
    /\ ncalls = 0

\* uv, err := uvgo.New(options...)
CallNew(optionLists) ==
    /\ runner = None
    /\ \E options \in optionLists, uvFound \in BOOLEAN :
           LET n == New(options, uvFound)
           IN  /\ runner' = n.runner
               /\ opts' = IF n.runner # None THEN options ELSE opts
               /\ ret' = Call("New", "", <<>>, <<>>, "", None, NoScenario,
                              EarlyReturn(n.err), NoStructured)
    /\ UNCHANGED ncalls

\* uv.Run(ctx, scriptPath, args...)
CallRun(paths, stats, argLists, scenarios) ==
    /\ runner # None
    /\ ncalls < MaxCalls
    /\ \E scriptPath \in paths, stat \in stats, args \in argLists, scn \in scenarios :
           /\ ValidScenario(runner[1], scn)
           /\ LET out == Run(runner[1], scriptPath, stat, args, scn)
              IN  ret' = Call("Run", scriptPath, <<>>, args, stat, None,
                              Met(out, scn), out, NoStructured)
    /\ ncalls' = ncalls + 1
    /\ UNCHANGED <<runner, opts>>

\* uv.RunFromString(ctx, script, args...)
CallRunFromString(scripts, argLists, scenarios) ==
    /\ runner # None
    /\ ncalls < MaxCalls
    /\ \E script \in scripts, args \in argLists, scn \in scenarios :
           /\ ValidScenario(runner[1], scn)
           /\ LET out == RunFromString(runner[1], script, args, scn)
              IN  ret' = Call("RunFromString", "", script, args, "", None,
                              Met(out, scn), out, NoStructured)
    /\ ncalls' = ncalls + 1
    /\ UNCHANGED <<runner, opts>>

\* uvgo.StructuredOutput[T](ctx, uv, scriptPath, args...)
CallStructuredOutput(paths, reads, stats, argLists, scenarios) ==
    /\ runner # None
    /\ ncalls < MaxCalls
    /\ \E scriptPath \in paths, read \in reads, stat \in stats,
          args \in argLists, scn \in scenarios :
           /\ ValidScenario(runner[1], scn)
           /\ LET s == StructuredOutput(runner[1], scriptPath, read, stat, args, scn)
              IN  ret' = Call("StructuredOutput", scriptPath,
                              IF read = None THEN <<>> ELSE read[1], args,
                              IF s.out = NotCalled THEN "" ELSE stat, read,
                              Met(s.out, scn), s.out, s.st)
    /\ ncalls' = ncalls + 1
    /\ UNCHANGED <<runner, opts>>

\* uvgo.StructuredOutputFromString[T](ctx, uv, script, args...)
CallStructuredOutputFromString(scripts, argLists, scenarios) ==
    /\ runner # None
    /\ ncalls < MaxCalls
    /\ \E script \in scripts, args \in argLists, scn \in scenarios :
           /\ ValidScenario(runner[1], scn)
           /\ LET s == StructuredOutputFromString(runner[1], script, args, scn)
              IN  ret' = Call("StructuredOutputFromString", "", script, args, "", None,
                              Met(s.out, scn), s.out, s.st)
    /\ ncalls' = ncalls + 1
    /\ UNCHANGED <<runner, opts>>

---------------------------------------------------------------------------
(* The inputs of the calls.                                                *)

\* All sequences over S of length at most n.
SeqsUpTo(S, n) == UNION {[1..k -> S] : k \in 0..n}

Stdouts == {JsonDoc \o "\n", "not-json"}

Stderrs == {"", "boom"}

DoneBys == {"none", "timeout", "outerCancel", "outerDeadline"}

\* The scenarios: a subprocess that exits by itself, over two exit codes,
\* two outputs and two error outputs; one that is killed, having written
\* part of its output; and the failures to start or to copy.
Scenarios ==
    {Scenario("startFailsCtx", d, 0, "", "") : d \in DoneBys \ {"none"}}
    \cup {Scenario("startFailsOther", "none", 0, "", "")}
    \cup {Scenario("exits", d, c, o, e) :
              d \in DoneBys, c \in {0, 7}, o \in Stdouts, e \in Stderrs}
    \cup {Scenario("killed", d, -1, "not-json", e) :
              d \in DoneBys \ {"none"}, e \in Stderrs}
    \cup {Scenario("copyFails", "none", 0, JsonDoc \o "\n", "")}

\* The scenarios in which nothing goes wrong, but for a context that is
\* done from the start.
QuietScenarios ==
    {Scenario("exits", "none", 0, JsonDoc \o "\n", ""),
     Scenario("startFailsCtx", "timeout", 0, "", "")}

Paths == {"a.py", "-"}

Stats == {"ok", "notExist", "otherErr"}

\* Spec: the executions. Few Runners and scripts, every scenario.
ExecOptionLists == {<<>>, <<WithTimeout(0)>>, <<WithTimeout(-1)>>}

ExecScripts == {<<>>, <<" ", "\n">>, <<"x">>, <<Marker, "\n">>}

ExecReads == {None, Some(<<"x">>), Some(<<Marker>>)}

ExecArgs == {<<>>}

Next ==
    \/ CallNew(ExecOptionLists)
    \/ CallRun(Paths, Stats, ExecArgs, Scenarios)
    \/ CallRunFromString(ExecScripts, ExecArgs, Scenarios)
    \/ CallStructuredOutput({"a.py"}, ExecReads, {"ok", "notExist"}, ExecArgs, Scenarios)
    \/ CallStructuredOutputFromString(ExecScripts, ExecArgs, Scenarios)

Spec == Init /\ [][Next]_vars

\* SpecConfig: the configuration. Every list of at most MaxOpts options,
\* calls with and without arguments, quiet scenarios.
ConfigOptions ==
    {WithPython("3.12"), WithPython(""), WithExtraFlags(<<"-q">>),
     WithTimeout(5), WithTimeout(0),
     WithEnv(<<"A=1", "B=2">>), WithEnv(<<"C=3">>), WithEnv(<<>>),
     WithWorkDir("/w"),
     WithDependencies(<<"d1", "d2">>), WithDependencies(<<"d3">>),
     WithScriptArgs(<<"s1">>)}

ConfigArgs == {<<>>, <<"a1", "a2">>}

NextConfig ==
    \/ CallNew(SeqsUpTo(ConfigOptions, MaxOpts))
    \/ CallRun({"a.py"}, {"ok"}, ConfigArgs, QuietScenarios)
    \/ CallRunFromString({<<"x">>}, ConfigArgs, QuietScenarios)

SpecConfig == Init /\ [][NextConfig]_vars

\* SpecScripts: the validation. Every script of at most MaxScriptLen
\* chunks, one Runner, quiet scenarios.
Chunks == {Marker, Long, "x", " ", "\n"}

Scripts == SeqsUpTo(Chunks, MaxScriptLen)

NextScripts ==
    \/ CallNew({<<>>})
    \/ CallStructuredOutput({"a.py"}, {Some(s) : s \in Scripts}, {"ok"}, {<<>>},
                            QuietScenarios)
    \/ CallStructuredOutputFromString(Scripts, {<<>>}, QuietScenarios)

SpecScripts == Init /\ [][NextScripts]_vars

---------------------------------------------------------------------------
(* The configuration as the options given to New state it.                 *)

\* The place in opts of the last option of a kind; 0 when none was given.
LastOpt(kind) ==
    LET I == {i \in 1..Len(opts) : opts[i].kind = kind}
    IN  IF I = {} THEN 0 ELSE CHOOSE i \in I : \A j \in I : j <= i

CfgPython ==
    LET i == LastOpt("WithPython") IN IF i = 0 THEN "" ELSE opts[i].version

CfgFlags ==
    LET i == LastOpt("WithExtraFlags") IN IF i = 0 THEN <<>> ELSE opts[i].flags

CfgTimeout ==
    LET i == LastOpt("WithTimeout") IN IF i = 0 THEN 30 ELSE opts[i].timeout

CfgEnv ==
    LET i == LastOpt("WithEnv") IN IF i = 0 THEN <<>> ELSE opts[i].env

CfgWorkDir ==
    LET i == LastOpt("WithWorkDir") IN IF i = 0 THEN "" ELSE opts[i].workDir

CfgDeps ==
    LET i == LastOpt("WithDependencies") IN IF i = 0 THEN <<>> ELSE opts[i].deps

CfgScriptArgs ==
    LET i == LastOpt("WithScriptArgs") IN IF i = 0 THEN <<>> ELSE opts[i].args

Inline == {"RunFromString", "StructuredOutputFromString"}

---------------------------------------------------------------------------
(* The claims.                                                             *)

\* C1: in every call of Run or RunFromString that gets to the spawn, after
\* any calls before it, the arguments of uv are "run", then "--python" and
\* the version iff a version that is not empty is configured, then "--with"
\* d for each configured dependency d in order, then the extra flags in
\* order, then the script source (the path for Run, "-" for RunFromString),
\* then the arguments of the call if there are any, else the configured
\* default arguments; the configuration being the one given to New.
C1_ArgumentList ==
    (ret.op \in {"Run", "RunFromString"} /\ ret.out.cmd # None) =>
        LET a == ret.out.cmd[1].args
            p == IF CfgPython # "" THEN 2 ELSE 0
            n == Len(CfgDeps)
            m == Len(CfgFlags)
            src == IF ret.op = "Run" THEN ret.path ELSE "-"
            tail == IF ret.args # <<>> THEN ret.args ELSE CfgScriptArgs
        IN  /\ ret.out.cmd[1].name = "uv"
            /\ Len(a) = 1 + p + 2 * n + m + 1 + Len(tail)
            /\ a[1] = "run"
            /\ p = 2 => a[2] = "--python" /\ a[3] = CfgPython
            /\ \A i \in 1..n :
                   a[p + 2 * i] = "--with" /\ a[p + 2 * i + 1] = CfgDeps[i]
            /\ \A j \in 1..m : a[1 + p + 2 * n + j] = CfgFlags[j]
            /\ a[2 + p + 2 * n + m] = src
            /\ \A k \in 1..Len(tail) : a[2 + p + 2 * n + m + k] = tail[k]

\* A second call on the same Runner, without arguments, on a Runner with
\* two dependencies and default arguments.
C1_Witness ==
    /\ ncalls = 2
    /\ ret.op = "RunFromString"
    /\ ret.out.cmd # None
    /\ ret.args = <<>>
    /\ Len(CfgDeps) = 2
    /\ CfgScriptArgs # <<>>

\* C2 (as claimed): RunFromString with a script that is empty or only white
\* space returns the EmptyScript error and a nil result, and does not get
\* to the subprocess.
C2_EmptyOrBlankRejected ==
    (ret.op = "RunFromString" /\ TrimSpace(ret.script) = <<>>) =>
        /\ ret.out.err # None
        /\ ret.out.err[1].kind = "EmptyScript"
        /\ ret.out.result = None
        /\ ret.out.runs = 0

\* The subprocess ended with a code that is not 0 (by itself, or killed)
\* and the context reports no expired deadline when execute classifies.
NonZeroNoTimeout ==
    /\ ret.op \in {"Run", "RunFromString"}
    /\ ret.scn.fate \in {"exits", "killed"}
    /\ ret.scn.code # 0
    /\ CtxErr(ret.scn.doneBy) # "DeadlineExceeded"

\* The message of the failure without standard error, for the codes of
\* the scenarios.
ExitCodeMessage(code) ==
    IF code = 7 THEN "script execution failed with exit code 7: exit status 7"
    ELSE "script execution failed with exit code -1: signal: killed"

\* C3 (as claimed): after an exit that is not 0 and not a timeout, the call
\* returns the populated result and an error whose message is exactly the
\* captured standard error if there is any, and else the message with the
\* exit code.
C3_MessageIsStderr ==
    NonZeroNoTimeout =>
        /\ ret.out.result = Some(Result(ret.scn.out, ret.scn.errText))
        /\ ret.out.err # None
        /\ ret.out.err[1].kind = "ExecutionFailed"
        /\ ret.out.err[1].msg =
               IF ret.scn.errText # "" THEN ret.scn.errText
               ELSE ExitCodeMessage(ret.scn.code)

\* C3 (amended): after an exit that is not 0 and not a timeout, the call
\* returns the populated result and an error whose message is "script
\* execution failed: " followed by the captured standard error if there is
\* any, and else the message with the exit code.
C3_MessageIsPrefixedStderr ==
    NonZeroNoTimeout =>
        /\ ret.out.result = Some(Result(ret.scn.out, ret.scn.errText))
        /\ ret.out.err # None
        /\ ret.out.err[1].kind = "ExecutionFailed"
        /\ ret.out.err[1].msg =
               IF ret.scn.errText # ""
               THEN "script execution failed: " \o ret.scn.errText
               ELSE ExitCodeMessage(ret.scn.code)

\* A script that exits with code 7 having written boom to standard error.
C3_Witness ==
    /\ NonZeroNoTimeout
    /\ ret.scn.code = 7
    /\ ret.scn.errText = "boom"
    /\ ret.out.err # None

\* C4 (as claimed): every call that passes its checks before the execution
\* returns, with a result that is not nil, also when the subprocess never
\* starts.
C4_AlwaysReturnsResult ==
    ret.out.runs > 0 => ~ret.out.panicked /\ ret.out.result # None

\* C5 (as claimed): a timeout error is returned if and only if the
\* subprocess was killed because the deadline of the configured timeout
\* fired.
C5_TimeoutIffDeadlineKilled ==
    (ret.out.runs > 0 /\ ~ret.out.panicked) =>
        ((ret.out.err # None /\ ret.out.err[1].kind = "Timeout")
            <=> (ret.scn.fate = "killed" /\ ret.scn.doneBy = "timeout"))

\* The marker is on the last line of script s that is not blank, the lines
\* being what the newlines delimit: there is a marker with no newline
\* between it and any later chunk that is not white space.
MarkerOnLastNonBlankLine(s) ==
    \E i \in 1..Len(s) :
        /\ s[i] = Marker
        /\ \A j \in (i + 1)..Len(s) :
               ~IsSpace(s[j]) => \A k \in i..j : s[k] # "\n"

\* C6 (as claimed): a structured call accepts the script if and only if its
\* last line that is not blank contains the marker; a script that is not
\* accepted gives an InvalidScriptFormat error, a nil result and no
\* subprocess.
C6_AcceptedIffMarkerLast ==
    (ret.op \in {"StructuredOutput", "StructuredOutputFromString"}
        /\ (ret.op = "StructuredOutput" => ret.read # None)) =>
        /\ ret.out.runs > 0 <=> MarkerOnLastNonBlankLine(ret.script)
        /\ ret.out.runs = 0 =>
               /\ ret.st.err # None
               /\ ret.st.err[1].kind = "InvalidScriptFormat"
               /\ ret.st.sres = None
               /\ ret.out = NotCalled

\* C7: in a structured call whose execution returned, the output is decoded
\* if and only if the execution returned no error; a decoded output comes
\* back with the result of the execution and no error; an output that does
\* not decode gives an UnmarshalFailed error, the result of the execution
\* and the zero value as Data; an error of the execution comes back as it
\* is, with the result of the execution.
C7_StructuredDecoding ==
    (ret.op \in {"StructuredOutput", "StructuredOutputFromString"}
        /\ ret.out # NotCalled /\ ~ret.out.panicked) =>
        LET ex == ret.out
            st == ret.st
            captured == Some(Result(ret.scn.out, ret.scn.errText))
        IN  /\ st.decodes = IF ex.err = None THEN 1 ELSE 0
            /\ st.sres # None
            /\ st.sres[1].Result = ex.result
            /\ ex.err # None => st.err = ex.err /\ st.sres[1].Data = [a |-> 0]
            /\ (ex.err = None /\ ret.scn.out = "{\"a\":1}\n") =>
                   /\ st.err = None
                   /\ st.sres[1] = [Result |-> captured, Data |-> [a |-> 1]]
            /\ (ex.err = None /\ ret.scn.out = "not-json") =>
                   /\ st.err # None
                   /\ st.err[1].kind = "UnmarshalFailed"
                   /\ st.sres[1] = [Result |-> captured, Data |-> [a |-> 0]]

\* A script with the marker that exits 0 having printed not-json.
C7_Witness ==
    /\ ret.op = "StructuredOutputFromString"
    /\ ret.out.err = None
    /\ ret.out.result # None
    /\ ret.scn.out = "not-json"
    /\ ret.st.err # None

\* C8 (as claimed): Run with a path that does not exist returns the
\* ScriptNotFound error, a nil result and starts no subprocess; Run with a
\* path that exists starts exactly one subprocess.
C8_ExistingPathStartsOne ==
    ret.op = "Run" =>
        /\ ret.stat = "notExist" =>
               /\ ret.out.err # None
               /\ ret.out.err[1].kind = "ScriptNotFound"
               /\ ret.out.result = None
               /\ ret.out.runs = 0
               /\ ret.out.procs = 0
        /\ ret.stat = "ok" => ret.out.procs = 1

\* C8 (amended): Run with a path that does not exist returns the
\* ScriptNotFound error, a nil result and starts no subprocess; Run with a
\* path that exists calls cmd.Run exactly once, which starts exactly one
\* subprocess, or none when the start fails.
C8_ExistingPathRunsOnce ==
    ret.op = "Run" =>
        /\ ret.stat = "notExist" =>
               /\ ret.out.err # None
               /\ ret.out.err[1].kind = "ScriptNotFound"
               /\ ret.out.result = None
               /\ ret.out.runs = 0
               /\ ret.out.procs = 0
        /\ ret.stat = "ok" =>
               /\ ret.out.runs = 1
               /\ ret.out.procs =
                      IF ret.scn.fate \in {"startFailsCtx", "startFailsOther"}
                      THEN 0 ELSE 1

\* Run with a path that exists, whose subprocess does not start.
C8_Witness ==
    /\ ret.op = "Run"
    /\ ret.stat = "ok"
    /\ ret.out.runs = 1
    /\ ret.out.procs = 0

\* C9 (as claimed): the standard input of the subprocess is connected if
\* and only if the call is an inline one; a file call, whatever its path,
\* leaves it unconnected.
C9_StdinIffInline ==
    ret.out.cmd # None =>
        /\ ret.op \in Inline <=> ret.out.cmd[1].stdin # None
        /\ ret.op \in Inline => ret.out.cmd[1].stdin = Some(ret.script)

\* C10: the Runner that New returns has, in each field, the value of the
\* last option given for that field, and the default (a timeout of 30 s,
\* empty otherwise) when none was given; the subprocess gets the inherited
\* environment followed by the configured one.
C10_LastOptionWins ==
    runner # None =>
        /\ runner[1] = [pythonVersion |-> CfgPython,
                        extraFlags    |-> CfgFlags,
                        timeout       |-> CfgTimeout,
                        env           |-> CfgEnv,
                        workDir       |-> CfgWorkDir,
                        dependencies  |-> CfgDeps,
                        scriptArgs    |-> CfgScriptArgs]
        /\ ret.out.cmd # None =>
               EffectiveEnv(ret.out.cmd[1]) = <<"PATH=/bin", "A=0">> \o CfgEnv

\* A call on a Runner built from two different WithEnv options.
C10_Witness ==
    /\ runner # None
    /\ Len(opts) = 2
    /\ opts[1].kind = "WithEnv"
    /\ opts[2].kind = "WithEnv"
    /\ opts[2].env # <<>>
    /\ opts[1] # opts[2]
    /\ ret.out.cmd # None

============================================================================
